---- MODULE Spec2Model ----
(***************************************************************************)
(* A model of the FTDC tooling of deciduosity/birch:                       *)
(*   - the document flattener            (src/sample_iterator.go:75-177),  *)
(*   - the chunk sample iterator         (src/sample_iterator.go:11-65),   *)
(*   - the decode / export pipelines     (src/cmd/ftdc/main.go:236-379),   *)
(*   - stats, compare and the commands   (src/cmd/ftdc/main.go:42-234,     *)
(*     that call them                     398-411),                        *)
(*   - unpackInt                         (src/sample_iterator.go:192-197). *)
(* Each part has its own specification over the shared variables; the      *)
(* variables of the other parts keep their initial values.                 *)
(***************************************************************************)
EXTENDS Integers, Sequences, FiniteSets, TLC

VARIABLES
    \* ---- flattener
    doc,        \* the reference document handed to flattenDocument
    metrics,    \* the []Metric flattenDocument returned
    nodes,      \* the number of BSON values in doc
    flPc,       \* "build" while the document is written, "done" once flattened
    \* ---- sample iterator
    chunk,      \* the Chunk: [metrics: <<[key, Values]>>, nPoints]
    prodPc,     \* the goroutine of streamDocuments: "build" (top of the loop),
                \* "select" (blocked in the select), "done", "panicked"
    prodI,      \* its loop variable i
    prodDoc,    \* the document it built and is sending
    closes,     \* how many times close(out) has run
    ctxDone,    \* the context streamDocuments was started with is cancelled
    sample,     \* iter.sample
    consPc,     \* the caller of Next: "idle", "next" (inside Next)
    nextCtx,    \* the context of the Next call in progress: "live", "done"
    nextRet,    \* what the last Next call returned: "none", "true", "false"
    docRet,     \* what the last Document call returned
    crashed,    \* the process has exited on a panic
    \* ---- decode / export
    op,         \* the operation: "decode", "export" ("none": not running)
    args,       \* its arguments: [nFiles, tStart, tEnd, shouldMerge, includeKeys]
    clip,       \* start and end as parseTimes returned them
    mainPc,     \* the caller: "start", "open", "recv", "write", "ret"
    fileIdx,    \* the index of the file of the current loop iteration
    frPc,       \* the goroutine running ftdc.Chunks on the current file:
                \* "none", "run", "send" (blocked in o <- chunk), "done"
    pending,    \* the chunk it is sending
    frSeq,      \* how many chunks it has decoded from the current file
    produced,   \* every chunk the framers have decoded, in order
    consumed,   \* every chunk the caller has received, in order
    frFailed,   \* some framer ended with a stream-fatal error
    cs,         \* decode: the chunks kept
    count,      \* decode, export: the sample counter
    chunkCount, \* export: the chunk counter
    cur,        \* export: the samples of the chunk being written, c.Expand(..)
    wi,         \* export: the index of the next sample of cur to write
    out,        \* export: the samples written so far
    writeFailed,\* export: enc.Encode returned an error
    ret,        \* the return value: [err, kind, cs, total, ms]
    \* ---- the commands
    execPc,     \* the position in Execute: "args", "prep", "call", "readA",
                \* "readB", "proximal", "write", "encode", "done" ("none": idle)
    execRet,    \* what Execute returned: "none", "nil", "err"
    outFile,    \* the output file: "untouched", "truncated", "written"
    ss,         \* stats: the []ftdc.Stats gathered
    CmpThreshold, \* ftdc.CmpThreshold, in hundredths
    sa,         \* compare: the stats read from FileA
    sb,         \* compare: the stats read from FileB
    cmpOk,      \* compare: the ok of ftdc.Proximal: "none", "true", "false"
    \* ---- unpackInt
    bl,         \* the four bytes handed to unpackInt
    unpacked,   \* what unpackInt returned
    upPc        \* "call" before unpackInt has run, "done" after

flatVars == <<doc, metrics, nodes, flPc>>

iterVars == <<chunk, prodPc, prodI, prodDoc, closes, ctxDone, sample, consPc,
              nextCtx, nextRet, docRet, crashed>>

\* the variables of decode, export and stats
fnVars == <<op, args, clip, mainPc, fileIdx, frPc, pending, frSeq, produced,
            consumed, frFailed, cs, count, chunkCount, cur, wi, out,
            writeFailed, ret, ss>>

\* the variables of the Execute methods
cmdVars == <<execPc, execRet, outFile, CmpThreshold, sa, sb, cmpOk>>

cliVars == <<fnVars, cmdVars>>

hdrVars == <<bl, unpacked, upPc>>

vars == <<flatVars, iterVars, cliVars, hdrVars>>

(***************************************************************************)
(* Bounds of the model.                                                    *)
(***************************************************************************)
\* the number of BSON values (leaves and containers) of a reference document
MaxNodes == 3
\* the number of metrics of a chunk
MaxMetrics == 2
\* the number of deltas (samples after the first) of a chunk
MaxDeltas == 2
\* the number of input files of decode and export
MaxFiles == 2
\* the number of chunks in the input files, all together
MaxChunks == 3

(***************************************************************************)
(* BSON values.  A value is a record [t, n, m, kids]:                      *)
(*   t     the bson type,                                                  *)
(*   n, m  the payload: boolean n in {0,1}; int32/int64 n; double n in     *)
(*         tenths (37 is 3.7); datetime n in milliseconds since the epoch; *)
(*         timestamp n seconds and m increment,                            *)
(*   kids  the elements [key, val] of an embedded document or an array     *)
(*         (the flattener never reads the keys of array elements).         *)
(***************************************************************************)
Leaf(t, n, m) == [t |-> t, n |-> n, m |-> m, kids |-> <<>>]

Container(t, kids) == [t |-> t, n |-> 0, m |-> 0, kids |-> kids]

Element(key, val) == [key |-> key, val |-> val]

Keys == {"a", "b"}

\* the types metricForType has no case for, or an empty case
IgnoredTypes == {"string", "objectID", "decimal128", "null", "binary"}

\* the payloads each included type is drawn from
PayloadsOf(t) ==
    CASE t = "boolean"   -> {<<0, 0>>, <<1, 0>>}
      [] t = "int32"     -> {<<-3, 0>>, <<8, 0>>}
      [] t = "int64"     -> {<<4, 0>>}
      [] t = "double"    -> {<<37, 0>>, <<-37, 0>>}
      [] t = "datetime"  -> {<<1500, 0>>, <<-1500, 0>>, <<2000, 0>>}
      [] t = "timestamp" -> {<<5, 2>>}
      [] OTHER           -> {<<0, 0>>}

IncludedTypes == {"boolean", "int32", "int64", "double", "datetime", "timestamp"}

LeafVals ==
    UNION { { Leaf(t, p[1], p[2]) : p \in PayloadsOf(t) } :
            t \in IncludedTypes \cup IgnoredTypes }

\* the values a new node starts as: a leaf or an empty container
NodeVals == LeafVals \cup { Container("document", <<>>), Container("array", <<>>) }

IsContainer(val) == val.t \in {"document", "array"}

RECURSIVE SpineType(_, _, _), SpineKids(_, _), AppendAt(_, _, _)

\* the type of the container d levels down the last-child spine of a container
\* of type t with elements kids; "none" when there is no container there
SpineType(t, kids, d) ==
    IF d = 0 THEN t
    ELSE IF kids = <<>> THEN "none"
    ELSE LET last == kids[Len(kids)].val
         IN  IF IsContainer(last) THEN SpineType(last.t, last.kids, d - 1)
                                  ELSE "none"

\* the elements of that container
SpineKids(kids, d) ==
    IF d = 0 THEN kids ELSE SpineKids(kids[Len(kids)].val.kids, d - 1)

\* kids with element e appended to that container
AppendAt(kids, d, e) ==
    IF d = 0 THEN Append(kids, e)
    ELSE LET n == Len(kids)
         IN  [kids EXCEPT ![n].val.kids = AppendAt(kids[n].val.kids, d - 1, e)]

(***************************************************************************)
(* The flattener.                                                          *)
(***************************************************************************)
Metric(path, key, start) ==
    [ParentPath |-> path, KeyName |-> key, StartingValue |-> start]

\* int(val.Double()): Go converts a float to an integer by dropping the
\* fraction (truncation towards zero); n is in tenths
doubleStart(n) == IF n >= 0 THEN n \div 10 ELSE -((-n) \div 10)

\* int(val.DateTime().Unix()) * 1000: time.Time.Unix() is the number of whole
\* seconds since the epoch (rounded down); n is in milliseconds
dateTimeStart(n) == (n \div 1000) * 1000

\* a variant of arrayKey that numbers the elements from one
arrayKeyFromOne(key, idx) == key \o "." \o ToString(idx + 1)

\* fmt.Sprintf("%s.%d", key, idx)
arrayKey(key, idx) == key \o "." \o ToString(idx)

\* a variant of booleanMetrics that has no series for false
booleanMetricsTrueOnly(key, path, val) ==
    IF val.n = 1 THEN << Metric(path, key, 1) >> ELSE <<>>

booleanMetrics(key, path, val) ==
    IF val.n = 1 THEN << Metric(path, key, 1) >>
                 ELSE << Metric(path, key, 0) >>

timestampMetrics(key, path, val) ==
    << Metric(path, key, val.n * 1000), Metric(path, key \o ".inc", val.m) >>

\* the re-wrapping of the metrics of an embedded document: every one gets the
\* ParentPath of THIS level, whatever path the levels below had given it
embeddedMetrics(path, inner) ==
    [ i \in 1..Len(inner) |->
        Metric(path, inner[i].KeyName, inner[i].StartingValue) ]

RECURSIVE flattenDocument(_, _), flattenArrayFrom(_, _, _, _), metricForType(_, _, _)

flattenArray(key, path, a) == flattenArrayFrom(key, path, a, 0)

metricForType(key, path, val) ==
    CASE val.t = "objectID"   -> <<>>
      [] val.t = "string"     -> <<>>
      [] val.t = "decimal128" -> <<>>
      [] val.t = "array"      -> flattenArray(key, path, val.kids)
      [] val.t = "document"   ->
            LET p == Append(path, key)
            IN  embeddedMetrics(p, flattenDocument(p, val.kids))
      [] val.t = "boolean"    -> booleanMetrics(key, path, val)
      [] val.t = "double"     -> << Metric(path, key, doubleStart(val.n)) >>
      [] val.t = "int32"      -> << Metric(path, key, val.n) >>
      [] val.t = "int64"      -> << Metric(path, key, val.n) >>
      [] val.t = "datetime"   -> << Metric(path, key, dateTimeStart(val.n)) >>
      [] val.t = "timestamp"  -> timestampMetrics(key, path, val)
      [] OTHER                -> <<>>

flattenDocument(path, d) ==
    IF d = <<>> THEN <<>>
    ELSE metricForType(Head(d).key, path, Head(d).val)
           \o flattenDocument(path, Tail(d))

\* the loop of flattenArray from element idx (0-based) on
flattenArrayFrom(key, path, a, idx) ==
    IF idx >= Len(a) THEN <<>>
    ELSE metricForType(arrayKey(key, idx), path, a[idx + 1].val)
           \o flattenArrayFrom(key, path, a, idx + 1)

FlatIdle ==
    /\ doc = <<>>
    /\ metrics = <<>>
    /\ nodes = 0
    /\ flPc = "build"

\* the producer of the reference document writes one more value into it, in
\* document order: as the last element of the document itself or of the
\* container that is open at depth d (keys are distinct within a document)
AddNode ==
    /\ flPc = "build"
    /\ nodes < MaxNodes
    /\ \E d \in 0..nodes, v \in NodeVals :
         LET ct   == SpineType("document", doc, d)
             sibs == SpineKids(doc, d)
         IN  /\ ct # "none"
             /\ \E key \in (IF ct = "array" THEN {""}
                            ELSE { k \in Keys :
                                     \A j \in 1..Len(sibs) : sibs[j].key # k }) :
                   doc' = AppendAt(doc, d, Element(key, v))
    /\ nodes' = nodes + 1
    /\ UNCHANGED <<metrics, flPc>>
    /\ UNCHANGED <<iterVars, cliVars, hdrVars>>

\* the caller flattens the reference document from the empty path
\* ([]string{}: every append to it allocates, so no two paths share storage)
Flatten ==
    /\ flPc = "build"
    /\ metrics' = flattenDocument(<<>>, doc)
    /\ flPc' = "done"
    /\ UNCHANGED <<doc, nodes>>
    /\ UNCHANGED <<iterVars, cliVars, hdrVars>>

(***************************************************************************)
(* The sample iterator.                                                    *)
(***************************************************************************)
NoDoc == << <<"", 0>> >>     \* a nil *bson.Document

StartValues == {0, 5}

DeltaValues == {0, 1}

RECURSIVE PrefixSums(_, _)

\* values[0] = starting_value; values[i] = values[i-1] + deltas[i-1]
PrefixSums(start, deltas) ==
    IF deltas = <<>> THEN <<start>>
    ELSE <<start>> \o PrefixSums(start + Head(deltas), Tail(deltas))

\* a decoded chunk of nm metrics and nd deltas: every metric holds the sample
\* series of nd + 1 values and nPoints is nd + 1
NewChunk(nm, nd, starts, deltas) ==
    [ metrics |-> [ j \in 1..nm |->
                      [ key    |-> "m" \o ToString(j),
                        Values |-> PrefixSums(starts[j], deltas[j]) ] ],
      nPoints |-> nd + 1 ]

NoChunk == [ metrics |-> <<>>, nPoints |-> 0 ]

IterIdle ==
    /\ chunk = NoChunk
    /\ prodPc = "done"
    /\ prodI = 0
    /\ prodDoc = NoDoc
    /\ closes = 0
    /\ ctxDone = FALSE
    /\ sample = NoDoc
    /\ consPc = "idle"
    /\ nextCtx = "live"
    /\ nextRet = "none"
    /\ docRet = NoDoc
    /\ crashed = FALSE

\* a SampleIterator over a chunk: the goroutine of streamDocuments is started
\* with a context that iter.closer cancels; iter.sample is nil
IterStart ==
    /\ \E nm \in 0..MaxMetrics, nd \in 0..MaxDeltas :
         \E starts \in [1..nm -> StartValues],
            deltas \in [1..nm -> [1..nd -> DeltaValues]] :
           chunk = NewChunk(nm, nd, starts, deltas)
    /\ prodPc = "build"
    /\ prodI = 0
    /\ prodDoc = NoDoc
    /\ closes = 0
    /\ ctxDone = FALSE
    /\ sample = NoDoc
    /\ consPc = "idle"
    /\ nextCtx = "live"
    /\ nextRet = "none"
    /\ docRet = NoDoc
    /\ crashed = FALSE

\* the number of iterations the loop of streamDocuments makes
loopBound(c) == c.nPoints + 1

\* doc.Append(bson.EC.Int64(m.Key(), m.Values[i])) for every metric m
buildDoc(c, i) ==
    [ j \in 1..Len(c.metrics) |-> <<c.metrics[j].key, c.metrics[j].Values[i + 1]>> ]

\* m.Values[i] is in range for every metric of the chunk
inRange(c, i) ==
    \A j \in 1..Len(c.metrics) : i + 1 <= Len(c.metrics[j].Values)

\* the loop body up to the select: the document of sample i is built
ProdBuildDoc ==
    /\ ~crashed
    /\ prodPc = "build"
    /\ prodI < loopBound(chunk)
    /\ inRange(chunk, prodI)
    /\ prodDoc' = buildDoc(chunk, prodI)
    /\ prodPc' = "select"
    /\ UNCHANGED <<chunk, prodI, closes, ctxDone, sample, consPc, nextCtx,
                   nextRet, crashed>>
    /\ UNCHANGED <<docRet, flatVars, cliVars, hdrVars>>

\* m.Values[i] with i out of range: the goroutine panics, its deferred
\* close(out) runs, and the runtime goes on to end the process
ProdPanic ==
    /\ ~crashed
    /\ prodPc = "build"
    /\ prodI < loopBound(chunk)
    /\ ~inRange(chunk, prodI)
    /\ prodPc' = "panicked"
    /\ closes' = closes + 1
    /\ UNCHANGED <<chunk, prodI, prodDoc, ctxDone, sample, consPc, nextCtx,
                   nextRet, crashed>>
    /\ UNCHANGED <<docRet, flatVars, cliVars, hdrVars>>

\* the loop condition fails: the goroutine returns, the deferred close(out) runs
ProdLoopExit ==
    /\ ~crashed
    /\ prodPc = "build"
    /\ ~(prodI < loopBound(chunk))
    /\ prodPc' = "done"
    /\ closes' = closes + 1
    /\ UNCHANGED <<chunk, prodI, prodDoc, ctxDone, sample, consPc, nextCtx,
                   nextRet, crashed>>
    /\ UNCHANGED <<docRet, flatVars, cliVars, hdrVars>>

\* case <-ctx.Done(): return, and the deferred close(out) runs
ProdCtxDone ==
    /\ ~crashed
    /\ prodPc = "select"
    /\ ctxDone
    /\ prodPc' = "done"
    /\ closes' = closes + 1
    /\ UNCHANGED <<chunk, prodI, prodDoc, ctxDone, sample, consPc, nextCtx,
                   nextRet, crashed>>
    /\ UNCHANGED <<docRet, flatVars, cliVars, hdrVars>>

\* the unrecovered panic ends the process
Crash ==
    /\ ~crashed
    /\ prodPc = "panicked"
    /\ crashed' = TRUE
    /\ UNCHANGED <<chunk, prodPc, prodI, prodDoc, closes, ctxDone, sample,
                   consPc, nextCtx, nextRet>>
    /\ UNCHANGED <<docRet, flatVars, cliVars, hdrVars>>

\* SampleIterator.Close: iter.closer() cancels the producer's context
Close ==
    /\ ~crashed
    /\ ~ctxDone
    /\ ctxDone' = TRUE
    /\ UNCHANGED <<chunk, prodPc, prodI, prodDoc, closes, sample, consPc,
                   nextCtx, nextRet, crashed>>
    /\ UNCHANGED <<docRet, flatVars, cliVars, hdrVars>>

\* Next(ctx) is called, with a context that is live or already cancelled
NextCall ==
    /\ ~crashed
    /\ consPc = "idle"
    /\ consPc' = "next"
    /\ nextCtx' \in {"live", "done"}
    /\ UNCHANGED <<chunk, prodPc, prodI, prodDoc, closes, ctxDone, sample,
                   nextRet, crashed>>
    /\ UNCHANGED <<docRet, flatVars, cliVars, hdrVars>>

\* the context of the Next call in progress is cancelled
NextCtxCancel ==
    /\ ~crashed
    /\ consPc = "next"
    /\ nextCtx = "live"
    /\ nextCtx' = "done"
    /\ UNCHANGED <<chunk, prodPc, prodI, prodDoc, closes, ctxDone, sample,
                   consPc, nextRet, crashed>>
    /\ UNCHANGED <<docRet, flatVars, cliVars, hdrVars>>

\* Next: case <-ctx.Done(): return false
NextCtxDone ==
    /\ ~crashed
    /\ consPc = "next"
    /\ nextCtx = "done"
    /\ consPc' = "idle"
    /\ nextRet' = "false"
    /\ UNCHANGED <<chunk, prodPc, prodI, prodDoc, closes, ctxDone, sample,
                   nextCtx, crashed>>
    /\ UNCHANGED <<docRet, flatVars, cliVars, hdrVars>>

\* the unbuffered channel hands a document over: `case out <- doc` of the
\* producer (which goes on to i++) meets `case doc := <-iter.stream` of Next,
\* which makes it the current sample and returns true
Handoff ==
    /\ ~crashed
    /\ prodPc = "select"
    /\ consPc = "next"
    /\ sample' = prodDoc
    /\ nextRet' = "true"
    /\ consPc' = "idle"
    /\ prodI' = prodI + 1
    /\ prodPc' = "build"
    /\ UNCHANGED <<chunk, prodDoc, closes, ctxDone, nextCtx, crashed>>
    /\ UNCHANGED <<docRet, flatVars, cliVars, hdrVars>>

\* a variant of sampleOnNil that forgets the current document
sampleOnNilCleared(current) == NoDoc

\* if doc == nil { return false }: iter.sample is not assigned
sampleOnNil(current) == current

\* Next receives from the closed channel: doc == nil, return false
NextClosed ==
    /\ ~crashed
    /\ consPc = "next"
    /\ closes > 0
    /\ consPc' = "idle"
    /\ nextRet' = "false"
    /\ sample' = sampleOnNil(sample)
    /\ UNCHANGED <<chunk, prodPc, prodI, prodDoc, closes, ctxDone,
                   nextCtx, crashed>>
    /\ UNCHANGED <<docRet, flatVars, cliVars, hdrVars>>

\* SampleIterator.Document: return iter.sample
Document ==
    /\ ~crashed
    /\ consPc = "idle"
    /\ docRet' = sample
    /\ UNCHANGED <<chunk, prodPc, prodI, prodDoc, closes, ctxDone, sample,
                   consPc, nextCtx, nextRet, crashed>>
    /\ UNCHANGED <<flatVars, cliVars, hdrVars>>

ProdStep == ProdBuildDoc \/ ProdPanic \/ ProdLoopExit \/ ProdCtxDone \/ Crash

IterNext ==
    \/ ProdBuildDoc \/ ProdPanic \/ ProdLoopExit \/ ProdCtxDone \/ Crash
    \/ Close \/ NextCall \/ NextCtxCancel \/ NextCtxDone \/ Handoff \/ NextClosed
    \/ Document

\* C2: the producer sends exactly nPoints documents and then closes the
\* channel when it is drained with a live context, and it never reads a
\* sample index outside 0..nPoints-1 (an out-of-range read panics).
C2_SendsExactlyNPoints ==
    /\ prodPc # "panicked"
    /\ prodI <= chunk.nPoints
    /\ (prodPc = "done" /\ ~ctxDone) => (prodI = chunk.nPoints /\ closes = 1)

SampleAt(c, i) ==
    [ j \in 1..Len(c.metrics) |-> <<c.metrics[j].key, c.metrics[j].Values[i + 1]>> ]

\* the document a Document call is to return when n Next calls have returned
\* true: nil when n = 0, else the document the n-th of them delivered
CurrentAfter(c, n) == IF n = 0 THEN NoDoc ELSE buildDoc(c, n - 1)

\* C13: Next returns true only when it has received a new document from the
\* stream, which it makes current; drained with contexts that are never
\* cancelled it returns true once per sample of the chunk and then false (the
\* process is not ended instead); and once it has returned false on the
\* exhausted stream the stream stays closed, so every later call returns
\* false.  prodI counts the documents handed over, which is the number of
\* Next calls that returned true.
C13_TrueOncePerSampleThenFalse ==
    /\ prodI <= chunk.nPoints
    /\ (nextRet = "true" /\ consPc = "idle") =>
           (prodI >= 1 /\ sample = SampleAt(chunk, prodI - 1))
    /\ (nextRet = "false" /\ consPc = "idle" /\ nextCtx = "live" /\ ~ctxDone) =>
           (prodI = chunk.nPoints /\ closes > 0)
    /\ closes > 0 => prodPc = "done"
    /\ ~crashed

\* C14: Document returns nil exactly as long as no Next call has returned
\* true, else the document the most recent such call delivered; neither a
\* Document call nor a Next call that returns false changes the current
\* document.
C14_DocumentIsCurrentSample ==
    /\ [](sample = CurrentAfter(chunk, prodI))
    /\ [][docRet' # docRet => docRet' = CurrentAfter(chunk, prodI)]_vars
    /\ [][(nextRet' = "false" /\ consPc = "next" /\ consPc' = "idle") =>
             (sample' = sample /\ prodI' = prodI)]_vars
    /\ [][(consPc = "idle" /\ consPc' = "idle") => sample' = sample]_vars

\* C14's case: after a Next call that returned true and a later one that
\* returned false, Document has returned the current document, which is the
\* second sample of the chunk.
C14_Witness ==
    /\ nextRet = "false"
    /\ consPc = "idle"
    /\ prodI = 2
    /\ docRet = sample
    /\ docRet = SampleAt(chunk, 1)
    /\ Len(chunk.metrics) > 0
    /\ docRet # SampleAt(chunk, 0)

NilKeys == [nil |-> TRUE, keys |-> {}]

SomeKeys(ks) == [nil |-> FALSE, keys |-> ks]

\* the time arguments: "" (none), a UnixDate string, or a malformed string
TimeArgs == { <<"", "">>, <<"T2", "">>, <<"", "T2">>, <<"bad", "">>, <<"", "bad">> }

\* time.Parse(time.UnixDate, s), times counted in seconds
ParseUnixDate(s) ==
    CASE s = "T1" -> [ok |-> TRUE, t |-> 1]
      [] s = "T2" -> [ok |-> TRUE, t |-> 2]
      [] OTHER    -> [ok |-> FALSE, t |-> 0]

\* time.Unix(math.MinInt64, 0) and time.Unix(math.MaxInt64, 0): no bound
Unbounded == [open |-> TRUE, t |-> 0]

Bounded(t) == [open |-> FALSE, t |-> t]

parseTimes(tStart, tEnd) ==
    LET ps == ParseUnixDate(tStart)
        pe == ParseUnixDate(tEnd)
    IN  IF tStart # "" /\ ~ps.ok THEN [err |-> TRUE, start |-> Unbounded, end |-> Unbounded]
        ELSE IF tEnd # "" /\ ~pe.ok
        THEN [err |-> TRUE,
              start |-> IF tStart # "" THEN Bounded(ps.t) ELSE Unbounded,
              end |-> Unbounded]
        ELSE [err |-> FALSE,
              start |-> IF tStart # "" THEN Bounded(ps.t) ELSE Unbounded,
              end   |-> IF tEnd # "" THEN Bounded(pe.t) ELSE Unbounded]

NoClip == [err |-> FALSE, start |-> Unbounded, end |-> Unbounded]

\* the chunks a file can hold: the seconds of their first sample, and their shapes
ChunkStarts == {1, 2}

ChunkShapes == { [nd |-> 0, keys |-> <<"start">>],
                 [nd |-> 1, keys |-> <<"start", "x">>] }

\* the chunk decoded from a block: its metrics hold the starting value and
\* NDeltas deltas each; `start` counts milliseconds.  id tells the chunks
\* apart: the file and the position in it.
MakeChunk(id, start, shape) ==
    [ id      |-> id,
      NDeltas |-> shape.nd,
      Metrics |-> [ j \in 1..Len(shape.keys) |->
                      [ Key    |-> shape.keys[j],
                        Value  |-> IF shape.keys[j] = "start" THEN start * 1000 ELSE 7,
                        Deltas |-> [ d \in 1..shape.nd |->
                                       IF shape.keys[j] = "start" THEN 1000
                                       ELSE id[1] + id[2] ] ] ] ]

NoChunkC == MakeChunk(<<0, 0>>, 0, [nd |-> 0, keys |-> <<>>])

\* c.Map()["start"].Value
startValue(c) ==
    LET S == { j \in 1..Len(c.Metrics) : c.Metrics[j].Key = "start" }
    IN  c.Metrics[CHOOSE j \in S : TRUE].Value

\* c.Clip(start, end): the chunk is in when its first sample is in [start, end)
Clip(c, start, end) ==
    LET t == startValue(c) \div 1000
    IN  /\ (start.open \/ start.t <= t)
        /\ (end.open \/ t < end.t)

RECURSIVE SumSeq(_)

SumSeq(q) == IF q = <<>> THEN 0 ELSE Head(q) + SumSeq(Tail(q))

\* the value of metric m at sample i (0-based): the prefix sum
valueAt(m, i) == m.Value + SumSeq(SubSeq(m.Deltas, 1, i))

\* c.Expand(includeKeys): one document per sample, holding the metrics that
\* includeKeys names (all of them when it is nil)
Expand(c, includeKeys) ==
    LET kept == SelectSeq([ j \in 1..Len(c.Metrics) |-> j ],
                          LAMBDA j : includeKeys.nil
                                       \/ c.Metrics[j].Key \in includeKeys.keys)
    IN  [ i \in 1..(c.NDeltas + 1) |->
            [ id   |-> c.id,
              i    |-> i - 1,
              vals |-> [ k \in 1..Len(kept) |->
                           << c.Metrics[kept[k]].Key,
                              valueAt(c.Metrics[kept[k]], i - 1) >> ] ] ]

\* a variant of keepChunk that puts the chunk in front
keepChunkInFront(kept, c) == <<c>> \o kept

\* cs = append(cs, c)
keepChunk(kept, c) == Append(kept, c)

\* a variant of exportSkips that skips nothing
exportSkipsNothing(c, w) == FALSE

\* decode: if !c.Clip(start, end) { continue }
decodeSkips(c, w) == ~Clip(c, w.start, w.end)

\* export: if !c.Clip(start, end) { continue }
exportSkips(c, w) == ~Clip(c, w.start, w.end)

\* a variant of mergedEntry that takes the starting value of the later chunk
mergedEntryLaterValue(old, m) ==
    [ Key |-> m.Key, Value |-> m.Value, Deltas |-> old.Deltas \o m.Deltas ]

\* total[k] = ftdc.Metric{Key: k, Value: total[k].Value, Deltas: newDeltas},
\* newDeltas being total[k].Deltas followed by m.Deltas
mergedEntry(old, m) ==
    [ Key |-> m.Key, Value |-> old.Value, Deltas |-> old.Deltas \o m.Deltas ]

\* the merge of decode: per key, the first starting value and the deltas of
\* every chunk that has the key, one after the other
RECURSIVE mergeMetrics(_, _)

mergeMetrics(total, ms) ==
    IF ms = <<>> THEN total
    ELSE LET m == Head(ms)
             k == m.Key
         IN  mergeMetrics(
                 IF k \in DOMAIN total
                 THEN [total EXCEPT ![k] = mergedEntry(total[k], m)]
                 ELSE [ x \in DOMAIN total \cup {k} |->
                          IF x = k THEN m ELSE total[x] ],
                 Tail(ms))

RECURSIVE mergeChunks(_, _)

mergeChunks(total, chunks) ==
    IF chunks = <<>> THEN total
    ELSE mergeChunks(mergeMetrics(total, Head(chunks).Metrics), Tail(chunks))

NoRet == [err |-> FALSE, kind |-> "none", cs |-> <<>>, total |-> <<>>, ms |-> 0]

ErrRet == [err |-> TRUE, kind |-> "nil", cs |-> <<>>, total |-> <<>>, ms |-> 0]

\* the statistics files compare can be given: the mean of every metric
StatsSets ==
    UNION { [ks -> {0, 100, 110}] : ks \in { {"x"}, {"x", "y"} } }

NoStats == [k \in {} |-> 0]

\* the thresholds compare can be given, in hundredths (0.2 is the default)
Thresholds == {5, 20}

DefaultThreshold == 20

NoArgs == [nExtra |-> 0, nFiles |-> 0, tStart |-> "", tEnd |-> "",
           shouldMerge |-> FALSE, includeKeys |-> NilKeys,
           threshold |-> DefaultThreshold]

CliIdle ==
    /\ op = "none"
    /\ args = NoArgs
    /\ clip = NoClip
    /\ mainPc = "ret"
    /\ fileIdx = 0
    /\ frPc = "none"
    /\ pending = NoChunkC
    /\ frSeq = 0
    /\ produced = <<>>
    /\ consumed = <<>>
    /\ frFailed = FALSE
    /\ cs = <<>>
    /\ count = 0
    /\ chunkCount = 0
    /\ cur = <<>>
    /\ wi = 0
    /\ out = <<>>
    /\ writeFailed = FALSE
    /\ ret = NoRet
    /\ ss = <<>>
    /\ execPc = "none"
    /\ execRet = "none"
    /\ outFile = "untouched"
    /\ CmpThreshold = DefaultThreshold
    /\ sa = NoStats
    /\ sb = NoStats
    /\ cmpOk = "none"

\* one of the commands is run: Execute(args) of DecodeCommand, ExportCommand,
\* StatsCommand or CompareCommand is called with the options parsed
CliStart ==
    /\ op \in {"decode", "export", "stats", "compare"}
    /\ \E x \in 0..1, n \in 0..MaxFiles, ta \in TimeArgs, mg \in BOOLEAN,
          ik \in {NilKeys, SomeKeys({"start"})}, th \in Thresholds :
         /\ op # "export" => ik = NilKeys
         /\ op # "decode" => mg = FALSE
         /\ op # "compare" => th = DefaultThreshold
         /\ op = "compare" => (n = 0 /\ ta = <<"", "">>)
         /\ args = [nExtra |-> x, nFiles |-> n, tStart |-> ta[1], tEnd |-> ta[2],
                    shouldMerge |-> mg, includeKeys |-> ik, threshold |-> th]
    /\ clip = NoClip
    /\ mainPc = "start"
    /\ fileIdx = 0
    /\ frPc = "none"
    /\ pending = NoChunkC
    /\ frSeq = 0
    /\ produced = <<>>
    /\ consumed = <<>>
    /\ frFailed = FALSE
    /\ cs = <<>>
    /\ count = 0
    /\ chunkCount = 0
    /\ cur = <<>>
    /\ wi = 0
    /\ out = <<>>
    /\ writeFailed = FALSE
    /\ ret = NoRet
    /\ ss = <<>>
    /\ execPc = "args"
    /\ execRet = "none"
    /\ outFile = "untouched"
    /\ CmpThreshold = DefaultThreshold
    /\ sa = NoStats
    /\ sb = NoStats
    /\ cmpOk = "none"

\* the head of decode, export and stats: no file, or a time that does not
\* parse, is an error; else the loop over the files begins
Start ==
    /\ execPc = "call"
    /\ mainPc = "start"
    /\ LET pt == parseTimes(args.tStart, args.tEnd)
       IN  IF args.nFiles = 0 \/ pt.err
           THEN /\ ret' = ErrRet
                /\ mainPc' = "ret"
                /\ UNCHANGED <<clip, fileIdx>>
           ELSE /\ clip' = pt
                /\ fileIdx' = 1
                /\ mainPc' = "open"
                /\ UNCHANGED ret
    /\ UNCHANGED <<op, args, frPc, pending, frSeq, produced, consumed, frFailed,
                   cs, count, chunkCount, cur, wi, out, writeFailed>>
    /\ UNCHANGED <<ss, cmdVars, flatVars, iterVars, hdrVars>>

\* os.Open(file) succeeds: the channel o is made and the goroutine running
\* ftdc.Chunks(f, o) is started
OpenFile ==
    /\ op \in {"decode", "export"}
    /\ mainPc = "open"
    /\ mainPc' = "recv"
    /\ frPc' = "run"
    /\ frSeq' = 0
    /\ UNCHANGED <<op, args, clip, fileIdx, pending, produced, consumed, frFailed,
                   cs, count, chunkCount, cur, wi, out, writeFailed, ret>>
    /\ UNCHANGED <<ss, cmdVars, flatVars, iterVars, hdrVars>>

\* os.Open(file) fails: the error is returned
OpenFail ==
    /\ mainPc = "open"
    /\ mainPc' = "ret"
    /\ ret' = ErrRet
    /\ UNCHANGED <<op, args, clip, fileIdx, frPc, pending, frSeq, produced,
                   consumed, frFailed, cs, count, chunkCount, cur, wi, out,
                   writeFailed>>
    /\ UNCHANGED <<ss, cmdVars, flatVars, iterVars, hdrVars>>

\* ftdc.Chunks decodes the next chunk of the file and blocks sending it
FramerProduce ==
    /\ frPc = "run"
    /\ Len(produced) < MaxChunks
    /\ \E st \in ChunkStarts, sh \in ChunkShapes :
         pending' = MakeChunk(<<fileIdx, frSeq + 1>>, st, sh)
    /\ frSeq' = frSeq + 1
    /\ produced' = Append(produced, pending')
    /\ frPc' = "send"
    /\ UNCHANGED <<op, args, clip, mainPc, fileIdx, consumed, frFailed, cs, count,
                   chunkCount, cur, wi, out, writeFailed, ret>>
    /\ UNCHANGED <<ss, cmdVars, flatVars, iterVars, hdrVars>>

\* ftdc.Chunks reaches the end of the file: it closes o and returns nil
FramerEOF ==
    /\ frPc = "run"
    /\ frPc' = "done"
    /\ UNCHANGED <<op, args, clip, mainPc, fileIdx, pending, frSeq, produced,
                   consumed, frFailed, cs, count, chunkCount, cur, wi, out,
                   writeFailed, ret>>
    /\ UNCHANGED <<ss, cmdVars, flatVars, iterVars, hdrVars>>

\* ftdc.Chunks meets a stream-fatal error: it closes o and returns the error,
\* which the goroutine prints to stderr
FramerFail ==
    /\ frPc = "run"
    /\ frPc' = "done"
    /\ frFailed' = TRUE
    /\ UNCHANGED <<op, args, clip, mainPc, fileIdx, pending, frSeq, produced,
                   consumed, cs, count, chunkCount, cur, wi, out, writeFailed, ret>>
    /\ UNCHANGED <<ss, cmdVars, flatVars, iterVars, hdrVars>>

\* decode: `for c := range o` receives a chunk; it is kept when Clip says so
DecodeRecv ==
    /\ op = "decode"
    /\ mainPc = "recv"
    /\ frPc = "send"
    /\ frPc' = "run"
    /\ consumed' = Append(consumed, pending)
    /\ IF decodeSkips(pending, clip)
       THEN UNCHANGED <<cs, count>>
       ELSE /\ cs' = keepChunk(cs, pending)
            /\ count' = count + pending.NDeltas
    /\ UNCHANGED <<op, args, clip, mainPc, fileIdx, pending, frSeq, produced,
                   frFailed, chunkCount, cur, wi, out, writeFailed, ret>>
    /\ UNCHANGED <<ss, cmdVars, flatVars, iterVars, hdrVars>>

\* a variant of noneFound that never reports an empty input
noneFoundNever(kept) == FALSE

\* if len(cs) == 0 (decode), if len(ss) == 0 (stats): "no chunks found"
noneFound(kept) == Len(kept) = 0

\* decode: the channel is closed: f.Close(), then the next file or, after the
\* last one, the result: an error when no chunk was kept, the merged metrics,
\* or the chunks
DecodeClosed ==
    /\ op = "decode"
    /\ mainPc = "recv"
    /\ frPc = "done"
    /\ IF fileIdx < args.nFiles
       THEN /\ fileIdx' = fileIdx + 1
            /\ mainPc' = "open"
            /\ UNCHANGED ret
       ELSE /\ mainPc' = "ret"
            /\ ret' = IF noneFound(cs) THEN ErrRet
                      ELSE IF args.shouldMerge
                      THEN [err |-> FALSE, kind |-> "merged", cs |-> <<>>,
                            total |-> mergeChunks(<<>>, cs), ms |-> 0]
                      ELSE [err |-> FALSE, kind |-> "chunks", cs |-> cs,
                            total |-> <<>>, ms |-> 0]
            /\ UNCHANGED fileIdx
    /\ UNCHANGED <<op, args, clip, frPc, pending, frSeq, produced, consumed,
                   frFailed, cs, count, chunkCount, cur, wi, out, writeFailed>>
    /\ UNCHANGED <<ss, cmdVars, flatVars, iterVars, hdrVars>>

\* a variant of expanding that keeps the samples of the chunks before
expandingWithEarlier(held, c, includeKeys) == held \o Expand(c, includeKeys)

\* range c.Expand(includeKeys): the samples export holds are those of the
\* chunk c just received; those it held before are dropped
expanding(held, c, includeKeys) == Expand(c, includeKeys)

\* export: `for c := range o` receives a chunk; when Clip says so it is
\* counted and expanded, and its samples are written one by one
ExportRecv ==
    /\ op = "export"
    /\ mainPc = "recv"
    /\ frPc = "send"
    /\ frPc' = "run"
    /\ consumed' = Append(consumed, pending)
    /\ IF exportSkips(pending, clip)
       THEN UNCHANGED <<chunkCount, cur, wi, mainPc>>
       ELSE /\ chunkCount' = chunkCount + 1
            /\ cur' = expanding(cur, pending, args.includeKeys)
            /\ wi' = 0
            /\ mainPc' = "write"
    /\ UNCHANGED <<op, args, clip, fileIdx, pending, frSeq, produced, frFailed,
                   cs, count, out, writeFailed, ret>>
    /\ UNCHANGED <<ss, cmdVars, flatVars, iterVars, hdrVars>>

\* out = the samples written, with d added
writeSample(written, d) == Append(written, d)

\* export: enc.Encode(d) writes the next sample
ExportWrite ==
    /\ op = "export"
    /\ mainPc = "write"
    /\ out' = writeSample(out, cur[wi + 1])
    /\ count' = count + 1
    /\ wi' = wi + 1
    /\ mainPc' = IF wi + 1 = Len(cur) THEN "recv" ELSE "write"
    /\ UNCHANGED <<op, args, clip, fileIdx, frPc, pending, frSeq, produced,
                   consumed, frFailed, cs, chunkCount, cur, writeFailed, ret>>
    /\ UNCHANGED <<ss, cmdVars, flatVars, iterVars, hdrVars>>

\* export: enc.Encode(d) fails: export returns the error at once
ExportWriteFail ==
    /\ op = "export"
    /\ mainPc = "write"
    /\ writeFailed' = TRUE
    /\ ret' = ErrRet
    /\ mainPc' = "ret"
    /\ UNCHANGED <<op, args, clip, fileIdx, frPc, pending, frSeq, produced,
                   consumed, frFailed, cs, count, chunkCount, cur, wi, out>>
    /\ UNCHANGED <<ss, cmdVars, flatVars, iterVars, hdrVars>>

\* export: the channel is closed: f.Close(), then the next file or, after the
\* last one, return nil
ExportClosed ==
    /\ op = "export"
    /\ mainPc = "recv"
    /\ frPc = "done"
    /\ IF fileIdx < args.nFiles
       THEN /\ fileIdx' = fileIdx + 1
            /\ mainPc' = "open"
            /\ UNCHANGED ret
       ELSE /\ mainPc' = "ret"
            /\ ret' = [err |-> FALSE, kind |-> "nil", cs |-> <<>>, total |-> <<>>, ms |-> 0]
            /\ UNCHANGED fileIdx
    /\ UNCHANGED <<op, args, clip, frPc, pending, frSeq, produced, consumed,
                   frFailed, cs, count, chunkCount, cur, wi, out, writeFailed>>
    /\ UNCHANGED <<ss, cmdVars, flatVars, iterVars, hdrVars>>

(***************************************************************************)
(* stats.  ftdc.ComputeStatsInterval and ftdc.MergeStats are not part of   *)
(* the sources; they are modelled from the specification (section 4.7):    *)
(* one Stats per chunk of the file inside the clip interval, or an error.  *)
(***************************************************************************)
\* the Stats of one chunk: n is the number of its samples
computeStats(c) == [ id |-> c.id, NSamples |-> c.NDeltas + 1 ]

\* ftdc.ComputeStatsInterval(f, start, end) on a file that holds the chunks q
ComputeStatsInterval(q, start, end) ==
    LET inc == SelectSeq(q, LAMBDA c : Clip(c, start, end))
    IN  [ i \in 1..Len(inc) |-> computeStats(inc[i]) ]

RECURSIVE MergeStats(_)

\* ftdc.MergeStats(ss...): n' = n_a + n_b
MergeStats(q) == IF q = <<>> THEN 0 ELSE Head(q).NSamples + MergeStats(Tail(q))

\* the chunks a file holds when no more than n chunks are left to read
FileContents(f, n) ==
    UNION { { [ i \in 1..k |-> MakeChunk(<<f, i>>, w[i][1], w[i][2]) ] :
              w \in [1..k -> ChunkStarts \X ChunkShapes] } : k \in 0..n }

\* stats: one turn of the loop over the files after os.Open succeeded:
\* ComputeStatsInterval fails and its error is returned, or its stats are
\* appended to ss; after the last file the result is an error when ss is
\* empty, else the merged stats
StatsFile ==
    /\ op = "stats"
    /\ mainPc = "open"
    /\ \/ /\ ret' = ErrRet
          /\ mainPc' = "ret"
          /\ frFailed' = TRUE
          /\ UNCHANGED <<fileIdx, produced, consumed, ss>>
       \/ \E q \in FileContents(fileIdx, MaxChunks - Len(produced)) :
            /\ produced' = produced \o q
            /\ consumed' = consumed \o q
            /\ ss' = ss \o ComputeStatsInterval(q, clip.start, clip.end)
            /\ UNCHANGED frFailed
            /\ IF fileIdx < args.nFiles
               THEN /\ fileIdx' = fileIdx + 1
                    /\ UNCHANGED <<mainPc, ret>>
               ELSE /\ mainPc' = "ret"
                    /\ ret' = IF noneFound(ss') THEN ErrRet
                              ELSE [err |-> FALSE, kind |-> "stats", cs |-> <<>>,
                                    total |-> <<>>, ms |-> MergeStats(ss')]
                    /\ UNCHANGED fileIdx
    /\ UNCHANGED <<op, args, clip, frPc, pending, frSeq, cs, count, chunkCount,
                   cur, wi, out, writeFailed>>
    /\ UNCHANGED <<cmdVars, flatVars, iterVars, hdrVars>>

(***************************************************************************)
(* The Execute methods of the commands.                                    *)
(***************************************************************************)
\* the head of every Execute: a positional argument left over is an error;
\* CompareCommand.Execute then sets ftdc.CmpThreshold
ExecArgs ==
    /\ execPc = "args"
    /\ IF args.nExtra > 0
       THEN /\ execRet' = "err"
            /\ execPc' = "done"
            /\ UNCHANGED CmpThreshold
       ELSE /\ execPc' = CASE op = "export"  -> "prep"
                           [] op = "compare" -> "readA"
                           [] OTHER          -> "call"
            /\ CmpThreshold' = IF op = "compare" THEN args.threshold
                               ELSE CmpThreshold
            /\ UNCHANGED execRet
    /\ UNCHANGED <<outFile, sa, sb, cmpOk>>
    /\ UNCHANGED <<fnVars, flatVars, iterVars, hdrVars>>

\* ExportCommand.Execute before export is called, with the option Out given
\* (without it the output goes to stdout and no file is opened): the output
\* file is opened (created, truncated), then the file of keys to include is
\* read; a failure of either is returned
ExportPrepare ==
    /\ op = "export"
    /\ execPc = "prep"
    /\ \E openOk \in BOOLEAN, keysOk \in BOOLEAN :
         /\ args.includeKeys.nil => keysOk
         /\ ~openOk => keysOk
         /\ outFile' = IF openOk THEN "truncated" ELSE outFile
         /\ IF openOk /\ keysOk
            THEN /\ execPc' = "call"
                 /\ UNCHANGED execRet
            ELSE /\ execPc' = "done"
                 /\ execRet' = "err"
    /\ UNCHANGED <<CmpThreshold, sa, sb, cmpOk>>
    /\ UNCHANGED <<fnVars, flatVars, iterVars, hdrVars>>

\* ExportCommand.Execute: export has returned; its error is the result
ExportReturn ==
    /\ op = "export"
    /\ execPc = "call"
    /\ mainPc = "ret"
    /\ execPc' = "done"
    /\ execRet' = IF ret.err THEN "err" ELSE "nil"
    /\ UNCHANGED <<outFile, CmpThreshold, sa, sb, cmpOk>>
    /\ UNCHANGED <<fnVars, flatVars, iterVars, hdrVars>>

\* DecodeCommand.Execute, StatsCommand.Execute: decode or stats has returned;
\* an error is returned as it is, else the output goes to writeJSONtoFile
OutputReturn ==
    /\ op \in {"decode", "stats"}
    /\ execPc = "call"
    /\ mainPc = "ret"
    /\ IF ret.err
       THEN /\ execPc' = "done"
            /\ execRet' = "err"
       ELSE /\ execPc' = "write"
            /\ UNCHANGED execRet
    /\ UNCHANGED <<outFile, CmpThreshold, sa, sb, cmpOk>>
    /\ UNCHANGED <<fnVars, flatVars, iterVars, hdrVars>>

\* writeJSONtoFile: os.OpenFile(file, O_WRONLY|O_CREATE|O_TRUNC) creates or
\* truncates the output file, or fails
WriteOpen ==
    /\ execPc = "write"
    /\ \/ /\ outFile' = "truncated"
          /\ execPc' = "encode"
          /\ UNCHANGED execRet
       \/ /\ execPc' = "done"
          /\ execRet' = "err"
          /\ UNCHANGED outFile
    /\ UNCHANGED <<CmpThreshold, sa, sb, cmpOk>>
    /\ UNCHANGED <<fnVars, flatVars, iterVars, hdrVars>>

\* writeJSONtoFile: enc.Encode(output) writes the file, or fails
WriteEncode ==
    /\ execPc = "encode"
    /\ execPc' = "done"
    /\ \/ /\ outFile' = "written"
          /\ execRet' = "nil"
       \/ /\ execRet' = "err"
          /\ UNCHANGED outFile
    /\ UNCHANGED <<CmpThreshold, sa, sb, cmpOk>>
    /\ UNCHANGED <<fnVars, flatVars, iterVars, hdrVars>>

(***************************************************************************)
(* compare.  ftdc.Proximal is not part of the sources; it is modelled from *)
(* the specification (section 4.7).  Scores are kept as fractions.         *)
(***************************************************************************)
Abs(n) == IF n < 0 THEN 0 - n ELSE n

\* the score of one metric, |a - b| / max(1, (|a| + |b|) / 2), as <<num, den>>
MetricScore(a, b) ==
    << 2 * Abs(a - b), IF Abs(a) + Abs(b) < 2 THEN 2 ELSE Abs(a) + Abs(b) >>

RECURSIVE ScoreSum(_, _, _)

\* the sum of the scores of the metrics ks, as <<num, den>>
ScoreSum(ks, a, b) ==
    IF ks = {} THEN <<0, 1>>
    ELSE LET k == CHOOSE x \in ks : TRUE
             m == MetricScore(a[k], b[k])
             r == ScoreSum(ks \ {k}, a, b)
         IN  << m[1] * r[2] + r[1] * m[2], m[2] * r[2] >>

\* the ok of ftdc.Proximal(a, b): the mean of the scores of the metrics both
\* sides have is at most the threshold (th hundredths)
ProximalOk(a, b, th) ==
    LET ks == DOMAIN a \cap DOMAIN b
        t  == ScoreSum(ks, a, b)
    IN  100 * t[1] <= th * Cardinality(ks) * t[2]

\* a variant of compareResult that returns nil whatever the verdict is
compareResultAlwaysNil(ok) == "nil"

\* if ok { return nil }; return err
compareResult(ok) == IF ok THEN "nil" ELSE "err"

\* sa, err := readJSONStats(cmp.Args.FileA)
ReadStatsA ==
    /\ op = "compare"
    /\ execPc = "readA"
    /\ \/ /\ execPc' = "done"
          /\ execRet' = "err"
          /\ UNCHANGED sa
       \/ /\ sa' \in StatsSets
          /\ execPc' = "readB"
          /\ UNCHANGED execRet
    /\ UNCHANGED <<outFile, CmpThreshold, sb, cmpOk>>
    /\ UNCHANGED <<fnVars, flatVars, iterVars, hdrVars>>

\* sb, err := readJSONStats(cmp.Args.FileB)
ReadStatsB ==
    /\ op = "compare"
    /\ execPc = "readB"
    /\ \/ /\ execPc' = "done"
          /\ execRet' = "err"
          /\ UNCHANGED sb
       \/ /\ sb' \in StatsSets
          /\ execPc' = "proximal"
          /\ UNCHANGED execRet
    /\ UNCHANGED <<outFile, CmpThreshold, sa, cmpOk>>
    /\ UNCHANGED <<fnVars, flatVars, iterVars, hdrVars>>

\* score, scores, ok := ftdc.Proximal(sa, sb), which reads ftdc.CmpThreshold;
\* the scores are printed and ok decides the result
CompareVerdict ==
    /\ op = "compare"
    /\ execPc = "proximal"
    /\ LET ok == ProximalOk(sa, sb, CmpThreshold)
       IN  /\ cmpOk' = IF ok THEN "true" ELSE "false"
           /\ execRet' = compareResult(ok)
    /\ execPc' = "done"
    /\ UNCHANGED <<outFile, CmpThreshold, sa, sb>>
    /\ UNCHANGED <<fnVars, flatVars, iterVars, hdrVars>>

CliNext ==
    \/ ReadStatsA \/ ReadStatsB \/ CompareVerdict
    \/ ExecArgs \/ ExportPrepare \/ ExportReturn \/ OutputReturn
    \/ WriteOpen \/ WriteEncode
    \/ Start \/ OpenFile \/ OpenFail
    \/ FramerProduce \/ FramerEOF \/ FramerFail
    \/ DecodeRecv \/ DecodeClosed
    \/ ExportRecv \/ ExportWrite \/ ExportWriteFail \/ ExportClosed
    \/ StatsFile

\* the chunks of q that are inside the clip interval
Included(q) == SelectSeq(q, LAMBDA c : Clip(c, clip.start, clip.end))

RECURSIVE ExpandAll(_, _)

\* the samples of the chunks of q, chunk after chunk
ExpandAll(q, includeKeys) ==
    IF q = <<>> THEN <<>>
    ELSE Expand(Head(q), includeKeys) \o ExpandAll(Tail(q), includeKeys)

RECURSIVE SumNDeltas(_)

SumNDeltas(q) == IF q = <<>> THEN 0 ELSE Head(q).NDeltas + SumNDeltas(Tail(q))

\* chunk a comes before chunk b in the stream: an earlier file, or the same
\* file and an earlier position
ChunkBefore(a, b) == a[1] < b[1] \/ (a[1] = b[1] /\ a[2] < b[2])

SampleBefore(x, y) == ChunkBefore(x.id, y.id) \/ (x.id = y.id /\ x.i < y.i)

\* C1: when a framer has failed with a stream-fatal error, decode and export
\* return a non-nil error.
C1_FramerErrorIsReturned ==
    (mainPc = "ret" /\ frFailed) => ret.err

\* C4: when export has returned the error of a failed write, the goroutine
\* running the framer is not left blocked on its channel send (nobody will
\* ever receive from the channel again, so it would stay blocked for good).
C4_ProducerNotLeftBlocked ==
    (mainPc = "ret" /\ writeFailed) => frPc # "send"

\* C9: chunks are consumed in stream order: the chunks decode keeps and the
\* samples export writes are in the order of the files and, within a file, in
\* the order the framer emitted them, none twice; what has been consumed is
\* what the framers emitted first; and every chunk emitted from an earlier
\* file has been consumed before the next file is begun.
C9_StreamOrder ==
    /\ \A i, j \in 1..Len(cs) : i < j => ChunkBefore(cs[i].id, cs[j].id)
    /\ \A i, j \in 1..Len(out) : i < j => SampleBefore(out[i], out[j])
    /\ Len(consumed) <= Len(produced)
    /\ consumed = SubSeq(produced, 1, Len(consumed))
    /\ \A i \in 1..Len(produced) :
         produced[i].id[1] < fileIdx => i <= Len(consumed)

\* C9's case: chunks of two files have been kept by decode, two of them from
\* the first file.
C9_Witness ==
    /\ op = "decode"
    /\ mainPc = "ret"
    /\ Len(cs) = 3
    /\ cs[2].id[1] = 1
    /\ cs[3].id[1] = 2

ChunksWith(q, k) ==
    SelectSeq(q, LAMBDA c : \E j \in 1..Len(c.Metrics) : c.Metrics[j].Key = k)

\* the metric of key k of chunk c
MetricOf(c, k) ==
    c.Metrics[CHOOSE j \in 1..Len(c.Metrics) : c.Metrics[j].Key = k]

RECURSIVE ConcatDeltas(_, _)

\* the deltas of key k of the chunks of q, chunk after chunk
ConcatDeltas(q, k) ==
    IF q = <<>> THEN <<>>
    ELSE MetricOf(Head(q), k).Deltas \o ConcatDeltas(Tail(q), k)

RECURSIVE SumDeltaLens(_, _)

SumDeltaLens(q, k) ==
    IF q = <<>> THEN 0
    ELSE Len(MetricOf(Head(q), k).Deltas) + SumDeltaLens(Tail(q), k)

\* C11: decode in merge mode is a raw concatenation: the result has one entry
\* for every metric key of the included chunks and no other; the entry of a
\* key holds the starting value of the first included chunk that has the key
\* and, as its deltas, the deltas of the key from every included chunk that
\* has it, in stream order, with nothing put in between (so their number is
\* the sum of the numbers of deltas), whatever the times of the chunks are.
C11_MergeIsRawConcatenation ==
    (op = "decode" /\ mainPc = "ret" /\ ret.kind = "merged") =>
        LET inc == Included(consumed)
            ks  == UNION { { inc[i].Metrics[j].Key : j \in 1..Len(inc[i].Metrics) } :
                           i \in 1..Len(inc) }
        IN  /\ DOMAIN ret.total = ks
            /\ \A k \in ks :
                  LET having == ChunksWith(inc, k)
                  IN  /\ ret.total[k].Key = k
                      /\ ret.total[k].Value = MetricOf(having[1], k).Value
                      /\ ret.total[k].Deltas = ConcatDeltas(having, k)
                      /\ Len(ret.total[k].Deltas) = SumDeltaLens(having, k)

\* C11's case: three chunks were merged; the first has no metric x, the other
\* two have it, and the first starts at another time than the second.
C11_Witness ==
    /\ op = "decode"
    /\ mainPc = "ret"
    /\ ret.kind = "merged"
    /\ Len(cs) = 3
    /\ ChunksWith(cs, "x") = <<cs[2], cs[3]>>
    /\ MetricOf(cs[1], "start").Value # MetricOf(cs[2], "start").Value
    /\ Len(ret.total["x"].Deltas) = 2

\* C12: stats and decode report an error instead of a result on empty input:
\* when the operation has returned and no file was given, or no chunk of the
\* files read is inside the clip interval, the error is non-nil and the
\* result is nil; an error always comes with a nil result; and a non-nil
\* result is returned only when at least one chunk was included.
C12_EmptyInputIsAnError ==
    (op \in {"decode", "stats"} /\ mainPc = "ret") =>
        /\ (args.nFiles = 0 \/ Included(consumed) = <<>>) =>
               (ret.err /\ ret.kind = "nil")
        /\ ret.err <=> ret.kind = "nil"
        /\ ret.kind # "nil" => Included(consumed) # <<>>

\* C12's case: stats has read every file given, the files held chunks, none
\* of them inside the clip interval, and has returned.
C12_Witness ==
    /\ op = "stats"
    /\ mainPc = "ret"
    /\ fileIdx = args.nFiles
    /\ ~frFailed
    /\ Len(consumed) >= 2
    /\ Included(consumed) = <<>>
    /\ ret.err

\* C15: CompareCommand.Execute maps the verdict to its outcome: once both
\* stats files are read the threshold Proximal compares with is the one
\* configured (it is set before Proximal is evaluated), and Execute returns
\* nil exactly when Proximal reports ok, a non-nil error otherwise.
C15_VerdictDecidesOutcome ==
    /\ (op = "compare" /\ execPc = "proximal") => CmpThreshold = args.threshold
    /\ (op = "compare" /\ execPc = "done" /\ cmpOk # "none") =>
          /\ CmpThreshold = args.threshold
          /\ cmpOk = "true" <=> ProximalOk(sa, sb, args.threshold)
          /\ execRet = "nil" <=> cmpOk = "true"
          /\ execRet = "err" <=> cmpOk = "false"

\* C15's case: compare has returned an error for means of 100 and 110 with a
\* threshold of 0.05, which the default threshold of 0.2 would have let pass.
C15_Witness ==
    /\ op = "compare"
    /\ execPc = "done"
    /\ cmpOk = "false"
    /\ execRet = "err"
    /\ args.threshold = 5
    /\ DOMAIN sa = {"x"}
    /\ sa["x"] = 100
    /\ sb["x"] = 110
    /\ ProximalOk(sa, sb, DefaultThreshold)

\* C16: the handoff from the framer to decode and export is bounded: at most
\* one chunk was decoded by the framer and not yet received, and exactly then
\* the framer is blocked sending that chunk; export holds the samples of no
\* more than one chunk, the one it received last inside the clip interval,
\* and keeps no chunk; decode keeps every chunk inside the clip interval.
C16_BoundedHandoff ==
    op \in {"decode", "export"} =>
        /\ Len(produced) <= Len(consumed) + 1
        /\ frPc = "send" <=> Len(produced) = Len(consumed) + 1
        /\ frPc = "send" => pending = produced[Len(produced)]
        /\ op = "export" =>
              /\ cs = <<>>
              /\ \/ cur = <<>> /\ Included(consumed) = <<>>
                 \/ \E i \in 1..Len(consumed) :
                      /\ cur = Expand(consumed[i], args.includeKeys)
                      /\ Included(SubSeq(consumed, i, Len(consumed)))
                           = <<consumed[i]>>
        /\ op = "decode" =>
              /\ cur = <<>>
              /\ cs = Included(consumed)

\* C16's case: export has received two chunks inside the clip interval and is
\* writing the samples of the second, which are all it holds, while the
\* framer is blocked sending a third chunk.
C16_Witness ==
    /\ op = "export"
    /\ mainPc = "write"
    /\ frPc = "send"
    /\ Len(Included(consumed)) = 2
    /\ Len(produced) = 3
    /\ Len(cur) = 2
    /\ wi = 1

\* C18: the decode and stats commands leave the output file untouched on
\* failure: the output file is opened (created, truncated) only after decode
\* or stats has returned a result, every input file having been processed
\* without error; and when an argument is left over, a time does not parse, a
\* file cannot be opened, a file fails to be read or no chunk is found,
\* Execute returns the error and the output file has not been opened.
C18_OutputUntouchedOnFailure ==
    op \in {"decode", "stats"} =>
        /\ outFile # "untouched" =>
              /\ execPc \in {"encode", "done"}
              /\ args.nExtra = 0
              /\ mainPc = "ret"
              /\ ~ret.err
              /\ fileIdx = args.nFiles
              /\ ~frFailed
        /\ (execPc = "done" /\ (args.nExtra > 0 \/ ret.err \/ frFailed)) =>
              (execRet = "err" /\ outFile = "untouched")

(***************************************************************************)
(* unpackInt.                                                              *)
(***************************************************************************)
\* the values a byte of the header takes here
ByteValues == {0, 1, 127, 128, 255}

HdrIdle ==
    /\ bl = <<0, 0, 0, 0>>
    /\ unpacked = 0
    /\ upPc = "done"

\* unpackInt is about to be called with four bytes
HdrStart ==
    /\ bl \in [1..4 -> ByteValues]
    /\ unpacked = 0
    /\ upPc = "call"

\* int32(u) of the uint32 u whose three low bytes make up low and whose high
\* byte is high: u itself below 2^31, else u - 2^32 (the high byte then counts
\* as high - 256)
int32OfUint32(low, high) ==
    IF high >= 128 THEN low + 16777216 * (high - 256)
    ELSE low + 16777216 * high

\* int(int32(uint32(bl[0])<<0 | uint32(bl[1])<<8 | uint32(bl[2])<<16 |
\* uint32(bl[3])<<24)): the shifted bytes do not overlap, so | adds them up;
\* int() keeps the value of the int32
unpackInt(b) ==
    int32OfUint32(b[1] + 256 * b[2] + 65536 * b[3], b[4])

Unpack ==
    /\ upPc = "call"
    /\ unpacked' = unpackInt(bl)
    /\ upPc' = "done"
    /\ UNCHANGED bl
    /\ UNCHANGED <<flatVars, iterVars, cliVars>>

\* C19: unpackInt returns the four bytes read as a little-endian unsigned
\* 32-bit integer, b0 + 256*b1 + 65536*b2 + 16777216*b3: a value that is not
\* negative, whose quotient by 2^24 is b3 and whose remainder is
\* b0 + 256*b1 + 65536*b2, also when the top bit of b3 is set.
C19_UnpackIsUnsignedLittleEndian ==
    upPc = "done" =>
        /\ unpacked >= 0
        /\ unpacked \div 16777216 = bl[4]
        /\ unpacked % 16777216 = bl[1] + 256 * bl[2] + 65536 * bl[3]

FlatNext == AddNode \/ Flatten

(***************************************************************************)
(* The specifications: one per part, the other parts idle.                 *)
(***************************************************************************)
FlatInit == FlatIdle /\ IterIdle /\ CliIdle /\ HdrIdle

SpecFlatten == FlatInit /\ [][FlatNext]_vars

IterInit == FlatIdle /\ IterStart /\ CliIdle /\ HdrIdle

SpecIter == IterInit /\ [][IterNext]_vars

\* the scheduler runs a goroutine that can take a step: the producer is not
\* starved (nothing is assumed of the caller of Next and Close)
FairIter == SpecIter /\ WF_vars(ProdStep)

CliInit == FlatIdle /\ IterIdle /\ CliStart /\ HdrIdle

SpecCli == CliInit /\ [][CliNext]_vars

UnpackInit == FlatIdle /\ IterIdle /\ CliIdle /\ HdrStart

UnpackNext == Unpack

SpecUnpack == UnpackInit /\ [][UnpackNext]_vars

(***************************************************************************)
(* What the flattener is specified to return (spec sections 3 and 4.3),    *)
(* written down independently of the code: the series of the numeric-ish   *)
(* leaves in depth-first document order, each with the full path of the    *)
(* embedded documents around it and its numeric interpretation.            *)
(***************************************************************************)
RECURSIVE SeriesOfDoc(_, _), SeriesOfArr(_, _, _, _), SeriesOfVal(_, _, _)

SeriesOfVal(key, path, val) ==
    CASE val.t = "document"  -> SeriesOfDoc(Append(path, key), val.kids)
      [] val.t = "array"     -> SeriesOfArr(key, path, val.kids, 0)
      [] val.t = "timestamp" ->
            << Metric(path, key, val.n * 1000), Metric(path, key \o ".inc", val.m) >>
      [] val.t = "double"    ->
            << Metric(path, key, IF val.n >= 0 THEN val.n \div 10
                                               ELSE -((-val.n) \div 10)) >>
      [] val.t \in {"boolean", "int32", "int64", "datetime"} ->
            << Metric(path, key, val.n) >>
      [] OTHER               -> <<>>

SeriesOfDoc(path, d) ==
    IF d = <<>> THEN <<>>
    ELSE SeriesOfVal(Head(d).key, path, Head(d).val) \o SeriesOfDoc(path, Tail(d))

SeriesOfArr(key, path, a, idx) ==
    IF idx >= Len(a) THEN <<>>
    ELSE SeriesOfVal(key \o "." \o ToString(idx), path, a[idx + 1].val)
           \o SeriesOfArr(key, path, a, idx + 1)

Schema(ms) == [ i \in 1..Len(ms) |-> <<ms[i].ParentPath, ms[i].KeyName>> ]

KeyNames(ms) == [ i \in 1..Len(ms) |-> ms[i].KeyName ]

StartingValues(ms) == [ i \in 1..Len(ms) |-> ms[i].StartingValue ]

\* the documents of the shape of d: the same keys, key order, nesting and
\* value types, the leaves holding any payload of their type
RECURSIVE VariantsOfKids(_)

VariantsOfVal(val) ==
    IF IsContainer(val)
    THEN { Container(val.t, k) : k \in VariantsOfKids(val.kids) }
    ELSE { Leaf(val.t, p[1], p[2]) : p \in PayloadsOf(val.t) }

VariantsOfKids(kids) ==
    IF kids = <<>> THEN { <<>> }
    ELSE { <<Element(Head(kids).key, v)>> \o rest :
             v \in VariantsOfVal(Head(kids).val),
             rest \in VariantsOfKids(Tail(kids)) }

\* C3: every metric carries the full path of the embedded documents around
\* its leaf, so that the (path, key) pairs of the metrics are those of the
\* leaves in document order.
C3_FullParentPath ==
    flPc = "done" => Schema(metrics) = Schema(SeriesOfDoc(<<>>, doc))

\* C6: the starting value of every metric is the numeric interpretation of
\* its leaf: boolean 0/1, int32/int64 the integer, double truncated, datetime
\* its milliseconds since the epoch, timestamp seconds*1000 and increment.
C6_StartingValueIsNumericValue ==
    flPc = "done" =>
        StartingValues(metrics) = StartingValues(SeriesOfDoc(<<>>, doc))

\* C7: the metrics come in depth-first document order: one series per int32,
\* int64, double, datetime and boolean leaf, two (key, key.inc) per timestamp,
\* the children's series for documents and arrays (array children keyed
\* name.0, name.1, ...), none for any other type.
C7_DepthFirstSeries ==
    flPc = "done" => KeyNames(metrics) = KeyNames(SeriesOfDoc(<<>>, doc))

\* C7's case: an array holding a timestamp, followed by a leaf of an ignored
\* type, has been flattened.
C7_Witness ==
    /\ flPc = "done"
    /\ Len(doc) = 2
    /\ doc[1].val.t = "array"
    /\ Len(doc[1].val.kids) = 1
    /\ doc[1].val.kids[1].val.t = "timestamp"
    /\ doc[2].val.t \in IgnoredTypes
    /\ Len(metrics) = 2

\* C8: flattening depends on the shape only: every document of the shape of
\* doc flattens to the same number of metrics with the same (path, key) pairs.
C8_ShapeOnly ==
    flPc = "done" =>
        \A d2 \in VariantsOfKids(doc) :
            Schema(flattenDocument(<<>>, d2)) = Schema(metrics)

\* C8's case: a flattened document with at least two metrics, one of them in
\* an embedded document, that has another document of its shape.
C8_Witness ==
    /\ flPc = "done"
    /\ Len(metrics) >= 2
    /\ \E i \in 1..Len(metrics) : metrics[i].ParentPath # <<>>
    /\ \E d2 \in VariantsOfKids(doc) :
          StartingValues(flattenDocument(<<>>, d2)) # StartingValues(metrics)

====
